---- MODULE Spec2Model ----
(***************************************************************************)
(* Model of the HomeVision image downloader (src/main.go).                 *)
(*                                                                         *)
(* main launches one page worker (downloadImages) per page number; each    *)
(* page worker fetches its page under retryIndefintely, starts one         *)
(* download worker per house (retryIndefintely around getFileExtension +   *)
(* downloadImage), then drains len(houses) signals from downloadChan,      *)
(* calling logProgress (mutex + progressBar.Increment) for each one, and   *)
(* finally calls wg.Done; main returns from wg.Wait and prints the         *)
(* summary.                                                                *)
(*                                                                         *)
(* Strings (Content-Type headers, extensions) are sequences of one-        *)
(* character strings; file contents and response bodies are sequences of   *)
(* bytes.  The network and the file system are the environment: every      *)
(* request may fail.  Every photo URL of a run serves the same kind of     *)
(* asset (assetType, Asset); now and then the server answers a request     *)
(* with its "Access Denied" page instead (HdrHtml, DeniedPage), which the  *)
(* program takes for the asset because it never looks at the status code.  *)
(* Transient faults (failed requests, failed copies, denial answers) are   *)
(* limited to MaxFails in a run; a house may also have an unreachable URL, *)
(* whose download never succeeds.                                          *)
(***************************************************************************)
EXTENDS Integers, Sequences, FiniteSets, TLC

\* ------------------------------------------------------------------------
\* Bounds of the model
\* ------------------------------------------------------------------------
MaxPages == 2       \* largest -pageCount explored
MaxHouses == 2      \* houses in the whole catalog (over all pages)
MaxFails == 2       \* transient faults the environment injects in one run

\* ------------------------------------------------------------------------
\* Program constants
\* ------------------------------------------------------------------------
HousesPerPage == 10 \* the "10" of WithTotal(pageCount * 10)

Pages == 1..MaxPages
Recs == 1..MaxHouses

\* Content-Type headers a HEAD request may answer with.
HdrJpeg == <<"i","m","a","g","e","/","j","p","e","g">>
HdrPng == <<"i","m","a","g","e","/","p","n","g">>
HdrHtml == <<"t","e","x","t","/","h","t","m","l">>
HdrJpegCharset == <<"i","m","a","g","e","/","j","p","e","g",";"," ",
                    "c","h","a","r","s","e","t","=","b","i","n","a","r","y">>
HdrNone == <<>>     \* Header.Get returns "" when the response has no Content-Type
AssetTypes == {HdrJpeg, HdrPng, HdrJpegCharset, HdrNone}  \* Content-Type of the photos of a run
Headers == AssetTypes \cup {HdrHtml}

\* Bodies a GET request may answer with: the photo, or the denial page.
Asset == <<1>>
DeniedPage == <<2, 2>>
Bodies == {Asset, DeniedPage}

NoExt == <<"?">>    \* the closure's ext before getFileExtension has returned
NoHeader == <<"?">> \* no HEAD response has been read in this call of the closure

\* ------------------------------------------------------------------------
\* State
\* ------------------------------------------------------------------------
VARIABLES
    pageCount,      \* the pageCount flag
    mainPc,         \* main: "loop", "wait", "exit", "terminated"
    mainI,          \* main's loop variable i
    wg,             \* sync.WaitGroup counter
    launched,       \* launched[p]: go downloadImages(p, ...) statements run
    barTotal,       \* progressBar.Total
    barCurrent,     \* progressBar.Current
    pm,             \* holder of the mutex pm (0 = unlocked)
    barRead,        \* barRead[p]: the count Increment read for page worker p (0 outside Increment)
    reported,       \* the number printed by "Downloaded %d images" (-1 = not yet)
    assetType,      \* Content-Type the server gives the photos of this run
    budget,         \* transient faults the environment may still inject
    pwPc,           \* page worker: "idle","fetch","dispatch","collect","lock","locked","wgdone","done"
    houses,         \* len(houses) of the fetched page
    unreachable,    \* index of the house of the page whose download never succeeds (0 = none)
    dispatchI,      \* houses for which the go statement has run
    collectI,       \* loop variable i of the collecting loop
    downloadCount,  \* downloadCount of the page worker
    chanLen,        \* signals buffered in downloadChan
    chanCap,        \* capacity of downloadChan
    events,         \* downloadStatus values passed to notify, in order
    dwPc,           \* download worker: "idle","probe","download","send","ret","done"
    ext,            \* ext of the running closure invocation
    contentType,    \* the Content-Type read by the getFileExtension call that produced ext
    err,            \* result of the last finished step of the closure: "none","nil","err"
    invocations,    \* calls of f() made by retryIndefintely
    failures,       \* calls of f() that returned an error
    extAt,          \* the invocation in which ext was obtained
    sent,           \* signals the worker has put on downloadChan
    body,           \* the body streamed by the last io.Copy that returned nil
    fs,             \* fs[p][r]: extension |-> content of the file of house r of page p
    fopen           \* the worker holds an open file (f.Close is deferred)

mainVars == <<pageCount, mainPc, mainI, wg, launched, barTotal, reported, assetType>>
barVars == <<barCurrent, pm, barRead>>
pageVars == <<pwPc, houses, unreachable, dispatchI, collectI, downloadCount, chanCap, events>>
dwVars == <<dwPc, ext, contentType, err, invocations, failures, extAt, sent, body, fs, fopen>>
vars == <<mainVars, barVars, pageVars, dwVars, chanLen, budget>>

\* ------------------------------------------------------------------------
\* Pure helpers
\* ------------------------------------------------------------------------

\* strings.Index(s, "/"): 0-based index of the first "/", -1 when absent.
IndexSlash(s) ==
    IF \E i \in 1..Len(s) : s[i] = "/"
    THEN (CHOOSE i \in 1..Len(s) : s[i] = "/" /\ \A j \in 1..(i-1) : s[j] # "/") - 1
    ELSE -1

\* getFileExtension, from the header on: mimeHeader[Index+1:], "jpeg" -> "jpg".
ExtensionOfNoRemap(mimeHeader) ==
    SubSeq(mimeHeader, IndexSlash(mimeHeader) + 2, Len(mimeHeader))
ExtensionOf(mimeHeader) ==
    LET mimeType == SubSeq(mimeHeader, IndexSlash(mimeHeader) + 2, Len(mimeHeader))
    IN  IF mimeType = <<"j","p","e","g">> THEN <<"j","p","g">> ELSE mimeType

Exts == {ExtensionOf(h) : h \in Headers}

\* Writing bytes at offset 0 of a file opened with O_CREATE|O_WRONLY (no
\* O_TRUNC): the bytes replace the head of the old content.
WriteAt(old, bytes) == bytes \o SubSeq(old, Len(bytes) + 1, Len(old))

\* Content of the file named by extension e (empty when it does not exist yet).
Content(dir, e) == IF e \in DOMAIN dir THEN dir[e] ELSE <<>>

\* The directory after the file named by e has content c.
Put(dir, e, c) == [x \in (DOMAIN dir) \cup {e} |-> IF x = e THEN c ELSE dir[x]]

\* retryIndefintely: the loop returns when f() returned nil.
RetryReturnsAlways(e) == TRUE
RetryReturnsOnError(e) == e # "nil"
RetryReturns(e) == e = "nil"

\* retryIndefintely calls the whole closure again: it starts at the probe.
RetryEntrySame(failedAt) == failedAt
RetryEntry(failedAt) == "probe"

\* downloadImage reaches "c <- struct{}{}" only when io.Copy returned nil.
ReachesSendAfterCopy(outcome) == outcome \in {"Ok", "CopyErr"}
ReachesSend(outcome) == outcome = "Ok"

\* pm.Lock() goes through when the mutex is unlocked.
LockFreeAlways(m) == TRUE
LockFree(m) == m = 0

\* make(chan struct{}, len(houses)): the capacity of downloadChan.
ChanCapacityShort(n) == n - 1
ChanCapacity(n) == n

\* main's loop condition, i <= pageCount.
LoopCondStrict(i, n) == i < n
LoopCond(i, n) == i <= n

\* the collecting loop's condition, i < len(houses).
CollectCondShort(i, n) == i < n - 1
CollectCondLong(i, n) == i <= n
CollectCond(i, n) == i < n

\* the downloadStatus passed to notify.
NewStatusStale(p, n, count) == [page |-> p, total |-> n, current |-> count - 1]
NewStatus(p, n, count) == [page |-> p, total |-> n, current |-> count]

\* f[1] + ... + f[n].
RECURSIVE SumTo(_, _)
SumTo(f, n) == IF n = 0 THEN 0 ELSE f[n] + SumTo(f, n - 1)

\* Counters of a worker that retries forever stop at MaxInvocations.
MaxInvocations == MaxFails + 1
Bump(x) == IF x < MaxInvocations THEN x + 1 ELSE x

\* Position of the page worker after its dispatch loop has started di workers
\* and its collecting loop has made ci iterations.
AfterCollect(n, ci) == IF CollectCond(ci, n) THEN "collect" ELSE "wgdone"
AfterDispatch(n, di) == IF di < n THEN "dispatch" ELSE AfterCollect(n, 0)

\* ------------------------------------------------------------------------
\* Initial state: flags parsed, progress bar started
\* ------------------------------------------------------------------------
Init ==
    /\ pageCount \in 0..MaxPages
    /\ assetType \in AssetTypes
    /\ mainI = 1
    /\ mainPc = IF LoopCond(1, pageCount) THEN "loop" ELSE "wait"
    /\ wg = 0
    /\ launched = [p \in Pages |-> 0]
    /\ barTotal = pageCount * HousesPerPage
    /\ barCurrent = 0
    /\ pm = 0
    /\ barRead = [p \in Pages |-> 0]
    /\ reported = -1
    /\ budget = MaxFails
    /\ pwPc = [p \in Pages |-> "idle"]
    /\ houses = [p \in Pages |-> 0]
    /\ unreachable = [p \in Pages |-> 0]
    /\ dispatchI = [p \in Pages |-> 0]
    /\ collectI = [p \in Pages |-> 0]
    /\ downloadCount = [p \in Pages |-> 0]
    /\ chanLen = [p \in Pages |-> 0]
    /\ chanCap = [p \in Pages |-> 0]
    /\ events = [p \in Pages |-> <<>>]
    /\ dwPc = [p \in Pages |-> [r \in Recs |-> "idle"]]
    /\ ext = [p \in Pages |-> [r \in Recs |-> NoExt]]
    /\ contentType = [p \in Pages |-> [r \in Recs |-> NoHeader]]
    /\ err = [p \in Pages |-> [r \in Recs |-> "none"]]
    /\ invocations = [p \in Pages |-> [r \in Recs |-> 0]]
    /\ failures = [p \in Pages |-> [r \in Recs |-> 0]]
    /\ extAt = [p \in Pages |-> [r \in Recs |-> 0]]
    /\ sent = [p \in Pages |-> [r \in Recs |-> 0]]
    /\ body = [p \in Pages |-> [r \in Recs |-> <<>>]]
    /\ fs = [p \in Pages |-> [r \in Recs |-> <<>>]]
    /\ fopen = [p \in Pages |-> [r \in Recs |-> FALSE]]

\* ------------------------------------------------------------------------
\* main
\* ------------------------------------------------------------------------

\* One iteration of "for i := 1; i <= pageCount; i++": wg.Add(1) and
\* go downloadImages(i, logProgress, &wg).
Launch ==
    /\ mainPc = "loop"
    /\ mainI \in Pages
    /\ wg' = wg + 1
    /\ launched' = [launched EXCEPT ![mainI] = @ + 1]
    /\ pwPc' = [pwPc EXCEPT ![mainI] = "fetch"]
    /\ mainI' = mainI + 1
    /\ mainPc' = IF LoopCond(mainI + 1, pageCount) THEN "loop" ELSE "wait"
    /\ UNCHANGED <<pageCount, barTotal, reported, assetType, barVars, houses, unreachable, dispatchI,
                   collectI, downloadCount, chanCap, events, dwVars, chanLen, budget>>

\* wg.Wait() returns once the counter is zero.
WaitReturns ==
    /\ mainPc = "wait"
    /\ wg = 0
    /\ mainPc' = "exit"
    /\ UNCHANGED <<pageCount, mainI, wg, launched, barTotal, reported, assetType, barVars,
                   pageVars, dwVars, chanLen, budget>>

\* The deferred function: progressBar.Stop() and
\* Printfln("Downloaded %d images", progressBar.Total).
Summary ==
    /\ mainPc = "exit"
    /\ reported' = barTotal
    /\ mainPc' = "terminated"
    /\ UNCHANGED <<pageCount, mainI, wg, launched, barTotal, assetType, barVars,
                   pageVars, dwVars, chanLen, budget>>

\* ------------------------------------------------------------------------
\* Page worker (downloadImages)
\* ------------------------------------------------------------------------

\* An attempt of fetchHouses that returns an error; retryIndefintely repeats.
FetchFail(p) ==
    /\ pwPc[p] = "fetch"
    /\ budget > 0
    /\ budget' = budget - 1
    /\ UNCHANGED <<mainVars, barVars, pageVars, dwVars, chanLen>>

\* fetchHouses returns n houses, the d-th of which has a URL that always
\* fails (d = 0: none); downloadChan is made with capacity n.  The catalog
\* holds at most MaxHouses houses over all its pages.
FetchOk(p, n, d) ==
    /\ pwPc[p] = "fetch"
    /\ SumTo(houses, MaxPages) + n <= MaxHouses
    /\ houses' = [houses EXCEPT ![p] = n]
    /\ unreachable' = [unreachable EXCEPT ![p] = d]
    /\ chanCap' = [chanCap EXCEPT ![p] = ChanCapacity(n)]
    /\ pwPc' = [pwPc EXCEPT ![p] = AfterDispatch(n, 0)]
    /\ UNCHANGED <<mainVars, barVars, dispatchI, collectI, downloadCount, events,
                   dwVars, chanLen, budget>>

\* One iteration of "for _, h := range houses": go retryIndefintely(closure).
Dispatch(p) ==
    /\ pwPc[p] = "dispatch"
    /\ dispatchI[p] < houses[p]
    /\ LET r == dispatchI[p] + 1 IN
        /\ dwPc' = [dwPc EXCEPT ![p][r] = "probe"]
        /\ invocations' = [invocations EXCEPT ![p][r] = 1]
        /\ dispatchI' = [dispatchI EXCEPT ![p] = r]
        /\ pwPc' = [pwPc EXCEPT ![p] = AfterDispatch(houses[p], r)]
    /\ UNCHANGED <<mainVars, barVars, houses, unreachable, collectI, downloadCount, chanCap,
                   events, ext, contentType, err, failures, extAt, sent, body, fs, fopen,
                   chanLen, budget>>

\* "<-downloadChan", atomic.AddUint32(&downloadCount, 1) and the call of
\* notify with the new status (which then waits for the mutex).
Receive(p) ==
    /\ pwPc[p] = "collect"
    /\ chanLen[p] > 0
    /\ chanLen' = [chanLen EXCEPT ![p] = @ - 1]
    /\ downloadCount' = [downloadCount EXCEPT ![p] = @ + 1]
    /\ events' = [events EXCEPT ![p] = Append(@, NewStatus(p, houses[p], downloadCount[p] + 1))]
    /\ pwPc' = [pwPc EXCEPT ![p] = "lock"]
    /\ UNCHANGED <<mainVars, barVars, houses, unreachable, dispatchI, collectI, chanCap,
                   dwVars, budget>>

\* logProgress: pm.Lock(), and progressBar.Increment() reads the count.
Lock(p) ==
    /\ pwPc[p] = "lock"
    /\ LockFree(pm)
    /\ pm' = p
    /\ barRead' = [barRead EXCEPT ![p] = barCurrent]
    /\ pwPc' = [pwPc EXCEPT ![p] = "locked"]
    /\ UNCHANGED <<mainVars, barCurrent, houses, unreachable, dispatchI, collectI,
                   downloadCount, chanCap, events, dwVars, chanLen, budget>>

\* logProgress: progressBar.Increment() stores the count it read plus one,
\* then the deferred pm.Unlock(), and the loop's i++.
IncrementUnlock(p) ==
    /\ pwPc[p] = "locked"
    /\ barCurrent' = barRead[p] + 1
    /\ barRead' = [barRead EXCEPT ![p] = 0]
    /\ pm' = 0
    /\ collectI' = [collectI EXCEPT ![p] = @ + 1]
    /\ pwPc' = [pwPc EXCEPT ![p] = AfterCollect(houses[p], collectI[p] + 1)]
    /\ UNCHANGED <<mainVars, houses, unreachable, dispatchI, downloadCount, chanCap, events,
                   dwVars, chanLen, budget>>

\* wg.Done().
WgDone(p) ==
    /\ pwPc[p] = "wgdone"
    /\ wg' = wg - 1
    /\ pwPc' = [pwPc EXCEPT ![p] = "done"]
    /\ UNCHANGED <<pageCount, mainPc, mainI, launched, barTotal, reported, assetType, barVars,
                   houses, unreachable, dispatchI, collectI, downloadCount, chanCap, events,
                   dwVars, chanLen, budget>>

\* ------------------------------------------------------------------------
\* Download worker (retryIndefintely around the closure)
\* ------------------------------------------------------------------------

\* Faults an attempt costs the environment: a failing step of a house with
\* an unreachable URL is free, any other failing step is one fault, and so is
\* an answer that is the denial page.
FailCost(p, r) == IF unreachable[p] = r THEN 0 ELSE 1
HeaderCost(h) == IF h = HdrHtml THEN 1 ELSE 0
BodyCost(b) == IF b = DeniedPage THEN 1 ELSE 0

\* The closure returned e from position at: retryIndefintely returns or calls
\* the closure again.
Returned(p, r, e, at) ==
    /\ err' = [err EXCEPT ![p][r] = e]
    /\ failures' = [failures EXCEPT ![p][r] = IF e = "nil" THEN @ ELSE Bump(@)]
    /\ IF RetryReturns(e)
       THEN /\ dwPc' = [dwPc EXCEPT ![p][r] = "done"]
            /\ UNCHANGED <<invocations, ext, contentType, extAt>>
       ELSE /\ dwPc' = [dwPc EXCEPT ![p][r] = RetryEntry(at)]
            /\ invocations' = [invocations EXCEPT ![p][r] = Bump(@)]
            /\ IF RetryEntry(at) = "probe"
               THEN /\ ext' = [ext EXCEPT ![p][r] = NoExt]
                    /\ contentType' = [contentType EXCEPT ![p][r] = NoHeader]
                    /\ extAt' = [extAt EXCEPT ![p][r] = 0]
               ELSE UNCHANGED <<ext, contentType, extAt>>

\* getFileExtension fails (the HEAD request cannot be made or completed).
ProbeFail(p, r) ==
    /\ dwPc[p][r] = "probe"
    /\ budget >= FailCost(p, r)
    /\ budget' = budget - FailCost(p, r)
    /\ Returned(p, r, "err", "probe")
    /\ UNCHANGED <<mainVars, barVars, pageVars, sent, body, fs, fopen, chanLen>>

\* getFileExtension returns the extension of the header h.
ProbeOk(p, r, h) ==
    /\ dwPc[p][r] = "probe"
    /\ h \in {assetType, HdrHtml}
    /\ budget >= HeaderCost(h)
    /\ budget' = budget - HeaderCost(h)
    /\ contentType' = [contentType EXCEPT ![p][r] = h]
    /\ ext' = [ext EXCEPT ![p][r] = ExtensionOf(h)]
    /\ extAt' = [extAt EXCEPT ![p][r] = invocations[p][r]]
    /\ dwPc' = [dwPc EXCEPT ![p][r] = "download"]
    /\ UNCHANGED <<mainVars, barVars, pageVars, err, invocations, failures, sent, body,
                   fs, fopen, chanLen>>

\* downloadImage fails before the file is opened: the GET request fails
\* ("GetErr") or os.OpenFile fails ("OpenErr").
DownloadFailEarly(p, r, outcome) ==
    /\ dwPc[p][r] = "download"
    /\ outcome \in {"GetErr", "OpenErr"}
    /\ budget >= FailCost(p, r)
    /\ budget' = budget - FailCost(p, r)
    /\ Returned(p, r, "err", "download")
    /\ UNCHANGED <<mainVars, barVars, pageVars, sent, body, fs, fopen, chanLen>>

\* downloadImage: the file is created or opened, io.Copy writes the first j
\* bytes of the body b and then fails; the deferred f.Close() runs.
DownloadCopyErr(p, r, b, j) ==
    /\ dwPc[p][r] = "download"
    /\ budget >= FailCost(p, r) + BodyCost(b)
    /\ budget' = budget - (FailCost(p, r) + BodyCost(b))
    /\ fs' = [fs EXCEPT ![p][r] =
                Put(@, ext[p][r], WriteAt(Content(@, ext[p][r]), SubSeq(b, 1, j)))]
    /\ IF ReachesSend("CopyErr")
       THEN /\ dwPc' = [dwPc EXCEPT ![p][r] = "send"]
            /\ err' = [err EXCEPT ![p][r] = "err"]
            /\ fopen' = [fopen EXCEPT ![p][r] = TRUE]
            /\ UNCHANGED <<invocations, failures, ext, contentType, extAt>>
       ELSE /\ Returned(p, r, "err", "download")
            /\ UNCHANGED fopen
    /\ UNCHANGED <<mainVars, barVars, pageVars, sent, body, chanLen>>

\* downloadImage: the file is created or opened and io.Copy streams the whole
\* body b into it.
DownloadCopyOk(p, r, b) ==
    /\ dwPc[p][r] = "download"
    /\ unreachable[p] # r
    /\ budget >= BodyCost(b)
    /\ budget' = budget - BodyCost(b)
    /\ ReachesSend("Ok")
    /\ fs' = [fs EXCEPT ![p][r] = Put(@, ext[p][r], WriteAt(Content(@, ext[p][r]), b))]
    /\ body' = [body EXCEPT ![p][r] = b]
    /\ err' = [err EXCEPT ![p][r] = "nil"]
    /\ fopen' = [fopen EXCEPT ![p][r] = TRUE]
    /\ dwPc' = [dwPc EXCEPT ![p][r] = "send"]
    /\ UNCHANGED <<mainVars, barVars, pageVars, ext, contentType, invocations, failures,
                   extAt, sent, chanLen>>

\* downloadImage: "c <- struct{}{}" (blocks while the channel is full).
Send(p, r) ==
    /\ dwPc[p][r] = "send"
    /\ chanLen[p] < chanCap[p]
    /\ chanLen' = [chanLen EXCEPT ![p] = @ + 1]
    /\ sent' = [sent EXCEPT ![p][r] = @ + 1]
    /\ dwPc' = [dwPc EXCEPT ![p][r] = "ret"]
    /\ UNCHANGED <<mainVars, barVars, pageVars, ext, contentType, err, invocations,
                   failures, extAt, body, fs, fopen, budget>>

\* downloadImage returns: the deferred f.Close() runs and the closure's
\* result goes to retryIndefintely.
Return(p, r) ==
    /\ dwPc[p][r] = "ret"
    /\ fopen' = [fopen EXCEPT ![p][r] = FALSE]
    /\ Returned(p, r, err[p][r], "download")
    /\ UNCHANGED <<mainVars, barVars, pageVars, sent, body, fs, chanLen, budget>>

\* ------------------------------------------------------------------------
\* Specification
\* ------------------------------------------------------------------------
Next ==
    \/ Launch
    \/ WaitReturns
    \/ Summary
    \/ \E p \in Pages : FetchFail(p)
    \/ \E p \in Pages, n \in 0..MaxHouses, d \in 0..MaxHouses : d <= n /\ FetchOk(p, n, d)
    \/ \E p \in Pages : Dispatch(p)
    \/ \E p \in Pages : Receive(p)
    \/ \E p \in Pages : Lock(p)
    \/ \E p \in Pages : IncrementUnlock(p)
    \/ \E p \in Pages : WgDone(p)
    \/ \E p \in Pages, r \in Recs : ProbeFail(p, r)
    \/ \E p \in Pages, r \in Recs, h \in Headers : ProbeOk(p, r, h)
    \/ \E p \in Pages, r \in Recs, o \in {"GetErr", "OpenErr"} : DownloadFailEarly(p, r, o)
    \/ \E p \in Pages, r \in Recs, b \in Bodies, j \in 0..Len(DeniedPage) :
            j <= Len(b) /\ DownloadCopyErr(p, r, b, j)
    \/ \E p \in Pages, r \in Recs, b \in Bodies : DownloadCopyOk(p, r, b)
    \/ \E p \in Pages, r \in Recs : Send(p, r)
    \/ \E p \in Pages, r \in Recs : Return(p, r)

Spec == Init /\ [][Next]_vars

\* The steps of each goroutine, for a run in which every URL is reachable
\* (no operation fails forever: the faults are the MaxFails transient ones).
MainStep == Launch \/ WaitReturns \/ Summary

PageStep(p) ==
    \/ FetchFail(p)
    \/ \E n \in 0..MaxHouses : FetchOk(p, n, 0)
    \/ Dispatch(p)
    \/ Receive(p)
    \/ Lock(p)
    \/ IncrementUnlock(p)
    \/ WgDone(p)

WorkerStep(p, r) ==
    \/ ProbeFail(p, r)
    \/ \E h \in Headers : ProbeOk(p, r, h)
    \/ \E o \in {"GetErr", "OpenErr"} : DownloadFailEarly(p, r, o)
    \/ \E b \in Bodies, j \in 0..Len(DeniedPage) : j <= Len(b) /\ DownloadCopyErr(p, r, b, j)
    \/ \E b \in Bodies : DownloadCopyOk(p, r, b)
    \/ Send(p, r)
    \/ Return(p, r)

NextLive ==
    \/ MainStep
    \/ \E p \in Pages : PageStep(p)
    \/ \E p \in Pages, r \in Recs : WorkerStep(p, r)

\* The Go scheduler runs every goroutine that can take a step.
Fairness ==
    /\ WF_vars(MainStep)
    /\ \A p \in Pages : WF_vars(PageStep(p))
    /\ \A p \in Pages, r \in Recs : WF_vars(WorkerStep(p, r))

LiveSpec == Init /\ [][NextLive]_vars /\ Fairness

TypeOK ==
    /\ pageCount \in 0..MaxPages
    /\ mainPc \in {"loop", "wait", "exit", "terminated"}
    /\ wg \in 0..MaxPages
    /\ budget \in 0..MaxFails
    /\ \A p \in Pages : chanLen[p] \in 0..MaxHouses

\* ------------------------------------------------------------------------
\* Properties
\* ------------------------------------------------------------------------
Produced(p) == SumTo(sent[p], MaxHouses)
Terminating == mainPc \in {"exit", "terminated"}
PageDone(p) == pwPc[p] \in {"wgdone", "done"}

\* C1: main starts exactly one page worker for each page number 1..pageCount,
\* none for any other page and none twice, and wg.Wait returns only when all
\* of them have called wg.Done; with pageCount = 0 the loop is never entered.
C1_OnePageWorkerPerPage ==
    /\ \A p \in Pages : launched[p] <= 1
    /\ \A p \in Pages : p > pageCount => launched[p] = 0
    /\ pageCount = 0 => mainPc # "loop"
    /\ Terminating => \A p \in 1..pageCount : launched[p] = 1 /\ pwPc[p] = "done"

C1_Witness ==
    /\ mainPc = "terminated"
    /\ pageCount = 2
    /\ \A p \in 1..pageCount : launched[p] = 1 /\ houses[p] >= 1

\* C2: the statuses a page worker passes to notify are, in order, current =
\* 1, 2, ..., each with total = len(houses); there are never more than
\* len(houses) of them and exactly len(houses) once the loop has ended.
C2_ProgressEventsCountUp ==
    \A p \in Pages :
        /\ Len(events[p]) <= houses[p]
        /\ \A j \in 1..Len(events[p]) :
              events[p][j] = [page |-> p, total |-> houses[p], current |-> j]
        /\ PageDone(p) => Len(events[p]) = houses[p]

\* The second house of a page of two finishes first and is counted as 1.
C2_Witness ==
    \E p \in Pages :
        /\ houses[p] = 2
        /\ Len(events[p]) = 1
        /\ sent[p][2] = 1
        /\ sent[p][1] = 0

\* C3: a download worker puts at most one signal on downloadChan, so a page
\* never sees more than len(houses) signals; when the page worker is done,
\* len(houses) signals were produced, len(houses) consumed, none is buffered.
C3_OneSignalPerRecord ==
    \A p \in Pages :
        /\ \A r \in Recs : sent[p][r] <= 1
        /\ Produced(p) <= houses[p]
        /\ PageDone(p) =>
              /\ Produced(p) = houses[p]
              /\ downloadCount[p] = houses[p]
              /\ chanLen[p] = 0

C3_Witness ==
    \E p \in Pages :
        /\ pwPc[p] = "done"
        /\ houses[p] = 2
        /\ \E r \in Recs : failures[p][r] >= 1 /\ sent[p][r] = 1

\* C4: when main has returned from wg.Wait, every house of every fetched page
\* has had a successful attempt: its file exists under the probed extension
\* and its signal was sent.
C4_TerminationMeansAllDownloaded ==
    Terminating =>
        \A p \in 1..pageCount : \A r \in 1..houses[p] :
            /\ dwPc[p][r] \in {"ret", "done"}
            /\ err[p][r] = "nil"
            /\ sent[p][r] = 1
            /\ ext[p][r] \in DOMAIN fs[p][r]

C4_Witness ==
    /\ mainPc = "terminated"
    /\ SumTo(houses, MaxPages) >= 2
    /\ \E p \in Pages, r \in Recs : failures[p][r] >= 1 /\ dwPc[p][r] = "done"

\* C5 (as claimed): a download worker that has returned has written exactly
\* one file and sent exactly one signal.
C5_ExactlyOneFile ==
    \A p \in Pages, r \in Recs :
        dwPc[p][r] = "done" => Cardinality(DOMAIN fs[p][r]) = 1 /\ sent[p][r] = 1

\* C6 (as claimed): after a successful downloadImage the file holds exactly
\* the bytes that were fetched.
C6_FileEqualsFetchedBytes ==
    \A p \in Pages, r \in Recs :
        (dwPc[p][r] \in {"send", "ret", "done"} /\ err[p][r] = "nil")
            => Content(fs[p][r], ext[p][r]) = body[p][r]

\* C7 (as claimed): the number in the final summary is the number of images
\* downloaded in the run.
C7_SummaryCountsDownloads ==
    mainPc = "terminated" => reported = SumTo(houses, MaxPages)

\* C8: retryIndefintely returns only after a call of f() that returned nil,
\* and then it has called f() exactly (failed calls + 1) times; while it runs,
\* the calls started are one more than the calls that failed (one at a time).
C8_RetryInvokesFailuresPlusOne ==
    \A p \in Pages, r \in Recs :
        /\ dwPc[p][r] = "done" => err[p][r] = "nil"
        /\ (dwPc[p][r] # "idle" /\ unreachable[p] # r)
              => invocations[p][r] = failures[p][r] + 1

C8_Witness ==
    \E p \in Pages, r \in Recs :
        /\ dwPc[p][r] = "done"
        /\ failures[p][r] = 2
        /\ invocations[p][r] = 3

\* C9: whenever a download worker is in or past downloadImage, the extension
\* it uses was returned by getFileExtension in the same call of the closure.
C9_ProbeAndDownloadRetriedTogether ==
    \A p \in Pages, r \in Recs :
        dwPc[p][r] \in {"download", "send", "ret"}
            => extAt[p][r] = invocations[p][r] /\ ext[p][r] # NoExt

\* An earlier attempt failed after creating its file; the current attempt has
\* probed again, got another extension, and is about to download.
C9_Witness ==
    \E p \in Pages, r \in Recs :
        /\ dwPc[p][r] = "download"
        /\ invocations[p][r] >= 2
        /\ DOMAIN fs[p][r] # {}
        /\ ext[p][r] \notin DOMAIN fs[p][r]

\* C10: a house whose attempts all fail never sends a signal and its worker
\* never returns; its page worker never gets through the collecting loop and
\* main never returns from wg.Wait.
C10_PermanentFailureHangsRun ==
    \A p \in Pages, r \in Recs :
        (unreachable[p] = r /\ dwPc[p][r] # "idle") =>
            /\ sent[p][r] = 0
            /\ dwPc[p][r] # "done"
            /\ ~PageDone(p)
            /\ ~Terminating

\* The stuck worker has retried up to the counter's cap while another page,
\* with a house of its own, is done.
C10_Witness ==
    \E p \in Pages, q \in Pages :
        /\ p # q
        /\ unreachable[p] >= 1
        /\ invocations[p][unreachable[p]] = MaxInvocations
        /\ pwPc[p] = "collect"
        /\ pwPc[q] = "done"
        /\ houses[q] >= 1

\* C11: in a run where no operation fails forever, under fair scheduling every
\* launched page worker eventually is done and main eventually terminates.
C11_EventuallyTerminates ==
    <>(mainPc = "terminated" /\ \A p \in 1..pageCount : pwPc[p] = "done")

\* The run has ended after the environment used up all its faults.
C11_Witness ==
    /\ mainPc = "terminated"
    /\ pageCount = 2
    /\ budget = 0
    /\ SumTo(houses, MaxPages) = MaxHouses
    /\ \E p \in Pages, r \in Recs : failures[p][r] >= 1

\* C12: at most one page worker is inside progressBar.Increment, the one
\* holding pm, and the bar's count is the number of notify calls that have
\* returned (no increment is lost).
C12_ProgressUpdatesSerialized ==
    /\ Cardinality({p \in Pages : pwPc[p] = "locked"}) <= 1
    /\ \A p \in Pages : pwPc[p] = "locked" => pm = p
    /\ barCurrent = SumTo(collectI, MaxPages)

\* One page worker is inside Increment while another waits for the mutex.
C12_Witness ==
    \E p \in Pages, q \in Pages :
        /\ pwPc[p] = "locked"
        /\ pwPc[q] = "lock"
        /\ barCurrent = 0

\* A header of the form type/subtype (one "/", both parts non-empty), and its
\* subtype.
IsTypeSubtype(h) ==
    \E k \in 2..(Len(h) - 1) : h[k] = "/" /\ \A j \in 1..Len(h) : j # k => h[j] # "/"
SubtypeOf(h) ==
    LET k == CHOOSE k \in 1..Len(h) : h[k] = "/" IN [j \in 1..(Len(h) - k) |-> h[k + j]]

\* C13: getFileExtension gives "jpg" for image/jpeg, "png" for image/png, and
\* for any other header type/subtype the subtype as it is.
C13_ExtensionMapping ==
    \A p \in Pages, r \in Recs :
        contentType[p][r] # NoHeader =>
            /\ contentType[p][r] = HdrJpeg => ext[p][r] = <<"j","p","g">>
            /\ contentType[p][r] = HdrPng => ext[p][r] = <<"p","n","g">>
            /\ (IsTypeSubtype(contentType[p][r])
                  /\ SubtypeOf(contentType[p][r]) # <<"j","p","e","g">>)
                    => ext[p][r] = SubtypeOf(contentType[p][r])

\* One house was probed as image/jpeg, the other got the text/html answer.
C13_Witness ==
    \E p \in Pages, q \in Pages, r \in Recs, t \in Recs :
        /\ contentType[p][r] = HdrJpeg
        /\ ext[p][r] = <<"j","p","g">>
        /\ contentType[q][t] = HdrHtml
        /\ ext[q][t] = <<"h","t","m","l">>

\* C14 (as claimed): a response without Content-Type makes getFileExtension
\* fail, so the closure never gets past the probe with it.
C14_MissingHeaderIsProbeError ==
    \A p \in Pages, r \in Recs :
        contentType[p][r] = HdrNone => dwPc[p][r] \notin {"download", "send", "ret", "done"}

\* C15 (as claimed): "image/jpeg; charset=binary" gives the extension "jpg".
C15_JpegWithParametersIsJpg ==
    \A p \in Pages, r \in Recs :
        contentType[p][r] = HdrJpegCharset => ext[p][r] = <<"j","p","g">>

\* The houses of page p whose downloadImage got through io.Copy without error.
Succeeded(p) ==
    {r \in Recs : dwPc[p][r] \in {"send", "ret", "done"} /\ err[p][r] = "nil"}

\* C16: no download worker exists for a page that has not been fetched; a
\* signal comes only from a house whose download succeeded; the page worker's
\* counter, its progress events and the bar's count never exceed the number of
\* successful downloads.
C16_FailuresStayInsideWorker ==
    /\ \A p \in Pages :
          /\ pwPc[p] \in {"idle", "fetch"} => \A r \in Recs : dwPc[p][r] = "idle"
          /\ \A r \in Recs : sent[p][r] >= 1 => r \in Succeeded(p)
          /\ chanLen[p] + downloadCount[p] <= Cardinality(Succeeded(p))
          /\ Len(events[p]) <= Cardinality(Succeeded(p))
    /\ barCurrent <= SumTo([p \in Pages |-> Cardinality(Succeeded(p))], MaxPages)

\* On a page of two houses both have had failed attempts; one has since
\* succeeded and been counted, the other has not succeeded yet.
C16_Witness ==
    \E p \in Pages :
        /\ houses[p] = 2
        /\ downloadCount[p] = 1
        /\ \E r \in Recs, t \in Recs :
              /\ failures[p][r] >= 1 /\ dwPc[p][r] = "done"
              /\ failures[p][t] >= 1 /\ dwPc[p][t] \in {"probe", "download"}

\* C17: downloadChan has capacity len(houses), never holds more signals than
\* that, and a download worker at its send always finds room.
C17_SendNeverBlocks ==
    \A p \in Pages :
        /\ chanCap[p] = houses[p]
        /\ chanLen[p] <= chanCap[p]
        /\ \A r \in Recs : dwPc[p][r] = "send" => chanLen[p] < chanCap[p]

\* The first house's signal is buffered while the page worker is still in its
\* dispatch loop, before it has started collecting.
C17_Witness ==
    \E p \in Pages :
        /\ houses[p] = 2
        /\ pwPc[p] = "dispatch"
        /\ chanLen[p] = 1
        /\ dwPc[p][1] \in {"ret", "done"}

\* C18 (as claimed): once a download worker has sent its signal its file is
\* closed, so a page worker that is done has no open file left.
C18_SignalAfterClose ==
    \A p \in Pages, r \in Recs : sent[p][r] >= 1 => ~fopen[p][r]

\* C19 (as claimed): the bar's count never exceeds the total and equals it
\* when main has returned from wg.Wait.
C19_BarReachesTotal ==
    /\ barCurrent <= barTotal
    /\ Terminating => barCurrent = barTotal
====
